---- MODULE Spec2Model ----
(***************************************************************************)
(* Model of stockdownloader.py: the NYSE calendar helpers, the download    *)
(* planner (calculate_downloads), the fetch (data_download) and the bulk   *)
(* import into the ArangoDB collection, driven by main().                  *)
(*                                                                         *)
(* Dates are day numbers counted from BEGINNING_DATE ('2015-01-01' = 0).   *)
(* Timestamps are hours counted from the midnight (UTC) of that day:       *)
(* a pandas Timestamp of day d at hour h is d * HoursPerDay + h.           *)
(***************************************************************************)
EXTENDS Integers, Sequences, FiniteSets, TLC

\* ------------------------------------------------------------------ bounds
\* Number of days after FirstNowDay on which the wall clock is observed.
NowSpan == 7
\* Number of days of price history the provider holds before FirstNowDay.
HistorySpan == 1

\* ------------------------------------------------------- civil calendar
HoursPerDay == 24

IsLeap(y) == (y % 4 = 0 /\ y % 100 # 0) \/ y % 400 = 0

DaysInYear(y) == IF IsLeap(y) THEN 366 ELSE 365

RECURSIVE DaysBeforeYear(_)
DaysBeforeYear(y) == IF y <= 2015 THEN 0 ELSE DaysBeforeYear(y - 1) + DaysInYear(y - 1)

DaysBeforeMonth(y, m) ==
    LET cum == <<0, 31, 59, 90, 120, 151, 181, 212, 243, 273, 304, 334>>
    IN  cum[m] + (IF m > 2 /\ IsLeap(y) THEN 1 ELSE 0)

\* The day number of the civil date y-m-d ('2015-01-01' is day 0).
DayOf(y, m, d) == DaysBeforeYear(y) + DaysBeforeMonth(y, m) + (d - 1)

\* The first days of the years 2015 to 2030.
YearStarts == {DaysBeforeYear(y) : y \in 2015..2030}

\* datetime(day.year, 1, 1) of a day number.
FirstDayOfYear(day) ==
    CHOOSE s \in YearStarts : s <= day /\ \A t \in YearStarts : t <= day => t <= s

\* 0 = Monday ... 6 = Sunday; 2015-01-01 was a Thursday.
Weekday(day) == (day + 3) % 7

\* freq='B': Monday to Friday.
IsBusinessDay(day) == Weekday(day) < 5

\* pd.Timestamp of a date (midnight UTC) and of a wall-clock instant.
Midnight(day) == day * HoursPerDay
DateOf(ts) == ts \div HoursPerDay

\* ------------------------------------------------------------ constants
\* BEGINNING_DATE = '2015-01-01'
BEGINNING_DATE == 0
\* NYSE closes at 16:00 New York time, 21:00 UTC in winter.
CloseHour == 21
\* pd.date_range(start=date_str, periods=10, freq='B')
WindowPeriods == 10
\* pandas NaT (what .min() of an empty index returns) and Python None / a raised
\* IndexError, kept apart from every timestamp and every day number.
NaT == -1
IndexError == -2
None == -3

Tickers == {"A", "B"}

FirstNowDay == DayOf(2023, 12, 29)
LastNowDay == FirstNowDay + NowSpan
HistoryStart == FirstNowDay - HistorySpan
\* Instants at which the clock is read: before, at and after the close.
NowHours == {CloseHour - 1, CloseHour, CloseHour + 1}
Clocks == {d * HoursPerDay + h : d \in FirstNowDay..LastNowDay, h \in NowHours}

\* A calendar is the set of weekdays on which the exchange is closed.
NYSEHolidays == {DayOf(2023, 12, 25), DayOf(2024, 1, 1), DayOf(2024, 1, 15)}
\* A calendar with the exchange shut for the first three weeks of 2024.
LongClosure == {DayOf(2023, 12, 25)} \cup (DayOf(2024, 1, 1)..DayOf(2024, 1, 19))
Calendars == {NYSEHolidays, LongClosure}

\* --------------------------------------------------- trading calendar
\* A day nyse.valid_days() yields.
IsValidDay(cal, day) == IsBusinessDay(day) /\ day \notin cal

\* nyse.valid_days(start_date, end_date)
ValidDays(cal, start, end) == {d \in start..end : IsValidDay(cal, d)}

\* valid_days[-1] of the range start..end, or IndexError when it is empty.
RECURSIVE LastValidDay(_, _, _)
LastValidDay(cal, start, end) ==
    IF end < start THEN IndexError
    ELSE IF IsValidDay(cal, end) THEN end
    ELSE LastValidDay(cal, start, end - 1)

\* schedule.iloc[0]['market_close'] of a session.
MarketClose(day) == day * HoursPerDay + CloseHour

last_trading_day(cal, now) ==
    LET today == DateOf(now)
        first_day_of_year == FirstDayOfYear(today)
        last == LastValidDay(cal, first_day_of_year, today)
    IN  IF last = IndexError THEN IndexError
        ELSE IF now > MarketClose(last) THEN MarketClose(last)
        ELSE LET prev == LastValidDay(cal, first_day_of_year, last - 1)
             IN  IF prev = IndexError THEN IndexError ELSE MarketClose(prev)

RECURSIVE RollForward(_)
RollForward(day) == IF IsBusinessDay(day) THEN day ELSE RollForward(day + 1)

\* The n-th date (n >= 1) of pd.date_range(start=day, periods=.., freq='B').
RECURSIVE BusinessDate(_, _)
BusinessDate(day, n) ==
    IF n <= 1 THEN RollForward(day) ELSE RollForward(BusinessDate(day, n - 1) + 1)

next_trading_day(cal, date) ==
    LET first == BusinessDate(date, 1)
        last == BusinessDate(date, WindowPeriods)
        later == {d \in ValidDays(cal, first, last) : Midnight(d) > Midnight(date)}
    IN  IF later = {} THEN NaT
        ELSE Midnight(CHOOSE d \in later : \A e \in later : d <= e)

\* Timestamp < Timestamp; any comparison with NaT is False.
TsLess(a, b) == a # NaT /\ b # NaT /\ a < b

\* ------------------------------------------------------- ticker universe
\* list(set(...)): the duplicate-free lists over S, in any order.
NoDupSeqs(S) ==
    {s \in UNION {[1..n -> S] : n \in 0..Cardinality(S)} :
        \A i, j \in 1..Len(s) : i # j => s[i] # s[j]}

RECURSIVE IndexOfFrom(_, _, _)
IndexOfFrom(s, x, i) ==
    IF i > Len(s) THEN 0 ELSE IF s[i] = x THEN i ELSE IndexOfFrom(s, x, i + 1)

\* try: all_tickers.remove(x) / except: pass -- drops the first occurrence only.
ListRemove(s, x) ==
    LET i == IndexOfFrom(s, x, 1)
    IN  IF i = 0 THEN s ELSE SubSeq(s, 1, i - 1) \o SubSeq(s, i + 1, Len(s))

RECURSIVE RemoveAll(_, _)
RemoveAll(s, excl) ==
    IF excl = <<>> THEN s ELSE RemoveAll(ListRemove(s, Head(excl)), Tail(excl))

\* inclusion, exchanges, exclusion: what read_file(inclusion),
\* get_exchanges_tickers() and read_file(exclusion) return.
get_tickers_list(inclusion, exchanges, exclusion) ==
    RemoveAll(inclusion \o exchanges, exclusion)

\* Every list get_tickers_list can return, over all contents of the files.
TickerLists ==
    {get_tickers_list(inclusion, exchanges, exclusion) :
        inclusion \in NoDupSeqs(Tickers), exchanges \in NoDupSeqs(Tickers),
        exclusion \in NoDupSeqs(Tickers)}

\* ------------------------------------------------------------- the store
\* The collection: how many documents it holds for each (ticker, date).
StoreDays == HistoryStart..LastNowDay
Keys == Tickers \X StoreDays
EmptyCollection == [k \in Keys |-> 0]

\* FOR doc FILTER doc.ticker == ticker SORT doc.date DESC LIMIT 1 RETURN doc.date
get_last_update(ticker, db) ==
    LET dates == {d \in StoreDays : db[<<ticker, d>>] > 0}
    IN  IF dates = {} THEN None
        ELSE CHOOSE d \in dates : \A e \in dates : e <= d

\* ------------------------------------------------------------ the planner
\* The two calendar functions, tabulated over the arguments the planner passes.
LastTradingDayAt == [cal \in Calendars, now \in Clocks |-> last_trading_day(cal, now)]
NextTradingDayAfter == [cal \in Calendars, d \in StoreDays |-> next_trading_day(cal, d)]

\* anything_to_download comparing with the clock, not with the last close.
anything_to_download_now(cal, now, d) == TsLess(NextTradingDayAfter[cal, d], now)

\* anything_to_download(d); last_trading_day(nyse) has not raised.
anything_to_download(cal, now, d) ==
    TsLess(NextTradingDayAfter[cal, d], LastTradingDayAt[cal, now])

\* The loop starting every download at BEGINNING_DATE.
RECURSIVE all_dates_from_start(_, _, _, _)
all_dates_from_start(db, tickers, cal, now) ==
    IF tickers = <<>> THEN <<>>
    ELSE LET i == Head(tickers)
             lu == get_last_update(i, db)
             rest == all_dates_from_start(db, Tail(tickers), cal, now)
         IN  IF lu # None
             THEN IF anything_to_download(cal, now, lu)
                  THEN <<<<BEGINNING_DATE, i>>>> \o rest ELSE rest
             ELSE <<<<BEGINNING_DATE, i>>>> \o rest

\* The loop of lines 201-207: the [date, ticker] pairs, in list order.
RECURSIVE all_dates(_, _, _, _)
all_dates(db, tickers, cal, now) ==
    IF tickers = <<>> THEN <<>>
    ELSE LET i == Head(tickers)
             lu == get_last_update(i, db)
             rest == all_dates(db, Tail(tickers), cal, now)
         IN  IF lu # None
             THEN IF anything_to_download(cal, now, lu) THEN <<<<lu, i>>>> \o rest ELSE rest
             ELSE <<<<BEGINNING_DATE, i>>>> \o rest

\* The keys of ticker_dict, in insertion order.
RECURSIVE DictKeys(_)
DictKeys(items) ==
    IF items = <<>> THEN <<>>
    ELSE LET before == DictKeys(SubSeq(items, 1, Len(items) - 1))
             date == items[Len(items)][1]
         IN  IF \E k \in 1..Len(before) : before[k] = date THEN before
             ELSE Append(before, date)

RECURSIVE DictValue(_, _)
DictValue(items, date) ==
    IF items = <<>> THEN <<>>
    ELSE IF Head(items)[1] = date
         THEN <<Head(items)[2]>> \o DictValue(Tail(items), date)
         ELSE DictValue(Tail(items), date)

\* One entry for each pair, without grouping.
GroupByDate_ungrouped(items) ==
    [k \in 1..Len(items) |-> [date |-> items[k][1], tickers |-> <<items[k][2]>>]]

\* Lines 209-213: group the pairs by date.
GroupByDate(items) ==
    LET keys == DictKeys(items)
    IN  [k \in 1..Len(keys) |-> [date |-> keys[k], tickers |-> DictValue(items, keys[k])]]

\* anything_to_download is called, and last_trading_day raises in it.
PlanningRaises(db, tickers, cal, now) ==
    /\ LastTradingDayAt[cal, now] = IndexError
    /\ \E k \in 1..Len(tickers) : get_last_update(tickers[k], db) # None

\* raised: the IndexError of last_trading_day leaves the function; lists: the
\* returned list of {"date", "tickers"}.
calculate_downloads(db, tickers, cal, now) ==
    IF PlanningRaises(db, tickers, cal, now)
    THEN [raised |-> TRUE, lists |-> <<>>]
    ELSE [raised |-> FALSE, lists |-> GroupByDate(all_dates(db, tickers, cal, now))]

\* ---------------------------------------------------------------- fetch
\* What yf.download(tickers, start=start, interval='1d') can do: raise, or
\* return a frame indexed by the midnights of the sessions from start on that
\* the provider holds: none, those up to yesterday, or those up to today.
ProviderResponses(cal, start, now) ==
    LET from == IF start < HistoryStart THEN HistoryStart ELSE start
        frame(upto) == [raised |-> FALSE,
                        index |-> {Midnight(d) : d \in ValidDays(cal, from, upto)}]
    IN  {[raised |-> TRUE, index |-> {}], [raised |-> FALSE, index |-> {}],
         frame(DateOf(now) - 1), frame(DateOf(now))}

\* df.index.unique(), ascending.
RECURSIVE SortedIndex(_)
SortedIndex(index) ==
    IF index = {} THEN <<>>
    ELSE LET first == CHOOSE t \in index : \A u \in index : t <= u
         IN  <<first>> \o SortedIndex(index \ {first})

\* One record per date and per element of tickers; date.strftime('%Y-%m-%d')
\* keeps the date of the timestamp.
RECURSIVE RecordsOf(_, _)
RecordsOf(dates, tickers) ==
    IF dates = <<>> THEN <<>>
    ELSE [k \in 1..Len(tickers) |-> [ticker |-> tickers[k], date |-> DateOf(Head(dates))]]
         \o RecordsOf(Tail(dates), tickers)

\* The frame has MultiIndex columns when it holds more than one symbol.
IsMultiIndex(tickers) == Cardinality({tickers[k] : k \in 1..Len(tickers)}) > 1

\* none: the function returned None; records: the list it returned otherwise.
data_download(tickers, start, df) ==
    IF tickers = <<>> \/ df.raised THEN [none |-> TRUE, records |-> <<>>]
    ELSE LET dates == SortedIndex(df.index)
         IN  [none |-> FALSE,
              records |-> IF IsMultiIndex(tickers) THEN RecordsOf(dates, tickers)
                          ELSE RecordsOf(dates, <<tickers[1]>>)]

\* --------------------------------------------------------------- import
\* A collection without the unique index.
UniqueViolation_noindex(db, records) == FALSE

\* The unique hash index on ['ticker', 'date']: some record has the key of a
\* stored document or of another record of the same import.
UniqueViolation(db, records) ==
    \/ \E i \in 1..Len(records) : db[<<records[i].ticker, records[i].date>>] > 0
    \/ \E i, j \in 1..Len(records) : i # j /\ records[i] = records[j]

\* The collection with the documents of records added.
Inserted(db, records) ==
    [k \in Keys |-> db[k] + Cardinality({i \in 1..Len(records) :
                                 <<records[i].ticker, records[i].date>> = k})]

\* col.import_bulk(records): iterating None raises TypeError; with the default
\* halt_on_error=True one rejected document fails the whole import
\* (DocumentInsertError) and nothing is stored.
import_bulk(db, result) ==
    IF result.none THEN [error |-> "TypeError", col |-> db]
    ELSE IF UniqueViolation(db, result.records)
         THEN [error |-> "DocumentInsertError", col |-> db]
         ELSE [error |-> "none", col |-> Inserted(db, result.records)]

\* ----------------------------------------------------------------- state
VARIABLES
    nyse,            \* the calendar (the days it is closed on)
    clock,           \* datetime.utcnow(), in hours
    col,             \* the all_stocks collection
    tickers,         \* main's tickers
    download_lists,  \* main's download_lists
    pc,              \* "idle" between runs, "download" inside the for loop
    entry,           \* the index in download_lists of the loop's next entry
    outcome,         \* how the run of main ended, "running" inside it
    plans            \* calculate_downloads calls (at most 2 counted) since the
                     \* clock last moved or a document was last stored

vars == <<nyse, clock, col, tickers, download_lists, pc, entry, outcome, plans>>

FirstClock == CHOOSE c \in Clocks : \A d \in Clocks : c <= d

\* init_db() on a fresh database: the collection is created, empty, with its
\* unique index; main has not run.
Init ==
    /\ nyse \in Calendars
    /\ clock = FirstClock
    /\ col = EmptyCollection
    /\ tickers = <<>>
    /\ download_lists = <<>>
    /\ pc = "idle"
    /\ entry = 0
    /\ outcome = "none"
    /\ plans = 0

\* The instant of Clocks that follows now (now itself after the last one).
NextClock(now) ==
    IF \A c \in Clocks : c <= now THEN now
    ELSE CHOOSE c \in Clocks : c > now /\ \A d \in Clocks : d > now => c <= d

\* Time passes between two runs of main: the process has exited, its locals
\* are gone, and the clock has moved to the next instant.
Tick ==
    /\ pc = "idle"
    /\ NextClock(clock) # clock
    /\ clock' = NextClock(clock)
    /\ tickers' = <<>>
    /\ download_lists' = <<>>
    /\ entry' = 0
    /\ outcome' = "none"
    /\ plans' = 0
    /\ UNCHANGED <<nyse, col, pc>>

\* Planning that stores a first document for each ticker it has none of.
Main_PlanWith_registering(list) ==
    /\ pc = "idle"
    /\ LET plan == calculate_downloads(col, list, nyse, clock)
       IN  /\ tickers' = list
           /\ download_lists' = plan.lists
           /\ IF plan.raised
              THEN pc' = "idle" /\ entry' = 0 /\ outcome' = "IndexError"
              ELSE IF plan.lists = <<>>
              THEN pc' = "idle" /\ entry' = 0 /\ outcome' = "Nothing to download"
              ELSE pc' = "download" /\ entry' = 1 /\ outcome' = "running"
    /\ plans' = (IF plans < 2 THEN plans + 1 ELSE plans)
    /\ col' = [k \in Keys |->
                 IF /\ k[2] = HistoryStart
                    /\ \E i \in 1..Len(list) : list[i] = k[1]
                    /\ get_last_update(k[1], col) = None
                 THEN 1 ELSE col[k]]
    /\ UNCHANGED <<nyse, clock>>

\* main, lines 260-265, with list what get_tickers_list returned: the
\* downloads are planned.
Main_PlanWith(list) ==
    /\ pc = "idle"
    /\ LET plan == calculate_downloads(col, list, nyse, clock)
       IN  /\ tickers' = list
           /\ download_lists' = plan.lists
           /\ IF plan.raised
              THEN pc' = "idle" /\ entry' = 0 /\ outcome' = "IndexError"
              ELSE IF plan.lists = <<>>
              THEN pc' = "idle" /\ entry' = 0 /\ outcome' = "Nothing to download"
              ELSE pc' = "download" /\ entry' = 1 /\ outcome' = "running"
    /\ plans' = (IF plans < 2 THEN plans + 1 ELSE plans)
    /\ UNCHANGED <<nyse, clock, col>>

\* A run of main starts. The ticker files hold anything when the clock has
\* moved since the last run, and what they held in that run otherwise.
Main_Plan ==
    \E list \in TickerLists :
        /\ outcome = "none" \/ list = tickers
        /\ Main_PlanWith(list)

\* main, lines 267-269: one pass of the for loop, df being what the provider
\* answers.
Main_DownloadFrom(df) ==
    /\ pc = "download"
    /\ LET records == data_download(download_lists[entry].tickers,
                                    download_lists[entry].date, df)
           res == import_bulk(col, records)
       IN  /\ col' = res.col
           /\ plans' = (IF res.col = col THEN plans ELSE 0)
           /\ IF res.error # "none"
              THEN pc' = "idle" /\ entry' = entry /\ outcome' = res.error
              ELSE IF entry = Len(download_lists)
              THEN pc' = "idle" /\ entry' = entry + 1 /\ outcome' = "done"
              ELSE pc' = "download" /\ entry' = entry + 1 /\ outcome' = outcome
    /\ UNCHANGED <<nyse, clock, tickers, download_lists>>

Main_Download ==
    /\ pc = "download"
    /\ \E df \in ProviderResponses(nyse, download_lists[entry].date, clock) :
          Main_DownloadFrom(df)

Next == Tick \/ Main_Plan \/ Main_Download

Spec == Init /\ [][Next]_vars

\* ------------------------------------------- repeated runs at a fixed now
\* The last session whose close is at or before now.
RECURSIVE LastClosedFrom(_, _, _)
LastClosedFrom(cal, now, day) ==
    IF IsValidDay(cal, day) /\ MarketClose(day) <= now THEN day
    ELSE LastClosedFrom(cal, now, day - 1)

LastCompletedSession(cal, now) == LastClosedFrom(cal, now, DateOf(now))

\* The first session after a date.
RECURSIVE NextSession(_, _)
NextSession(cal, date) ==
    IF IsValidDay(cal, date + 1) THEN date + 1 ELSE NextSession(cal, date + 1)

\* A provider that answers with every session from start to the last completed one.
CompleteFrame(cal, start, now) ==
    LET from == IF start < HistoryStart THEN HistoryStart ELSE start
    IN  [raised |-> FALSE,
         index |-> {Midnight(d) : d \in ValidDays(cal, from, LastCompletedSession(cal, now))}]

\* The collection after earlier runs: each ticker has no document, or one for
\* every session from HistoryStart to some day.
StoreUpTo(cal, upto) ==
    [k \in Keys |-> IF IsValidDay(cal, k[2]) /\ k[2] <= upto[k[1]] THEN 1 ELSE 0]

InitConverge ==
    /\ nyse \in Calendars
    /\ clock \in Clocks
    /\ \E upto \in [Tickers -> (HistoryStart - 1)..DateOf(clock)] :
          col = StoreUpTo(nyse, upto)
    /\ tickers \in TickerLists
    /\ download_lists = <<>>
    /\ pc = "idle"
    /\ entry = 0
    /\ outcome = "none"
    /\ plans = 0

\* main is run again over the same ticker files.
Rerun == Main_PlanWith(tickers)

\* The for loop with the complete provider.
Download_Complete ==
    /\ pc = "download"
    /\ Main_DownloadFrom(CompleteFrame(nyse, download_lists[entry].date, clock))

NextConverge == Rerun \/ Download_Complete

\* Runs are repeated for ever, and a started run goes on to its end.
SpecConverge == InitConverge /\ [][NextConverge]_vars /\ WF_vars(NextConverge)

\* ------------------------------------------------------------ properties
\* download_lists and outcome are what calculate_downloads made of the
\* current collection, clock and tickers.
PlanKnown == plans >= 1

\* calculate_downloads returned download_lists (it did not raise).
PlanReturned == PlanKnown /\ outcome # "IndexError"

ListTickers == {tickers[k] : k \in 1..Len(tickers)}

LastKnownDate(t) == get_last_update(t, col)

\* The places <<batch, position>> of the plan that hold instrument t.
Places(t) ==
    {p \in (1..Len(download_lists)) \X (1..Len(tickers)) :
        /\ p[2] <= Len(download_lists[p[1]].tickers)
        /\ download_lists[p[1]].tickers[p[2]] = t}

Planned == {t \in ListTickers : Places(t) # {}}

\* The start date an instrument requires.
RequiredStart(t) ==
    IF LastKnownDate(t) = None THEN BEGINNING_DATE ELSE LastKnownDate(t)

NeedsData(t) ==
    \/ LastKnownDate(t) = None
    \/ NextSession(nyse, LastKnownDate(t)) <= LastCompletedSession(nyse, clock)

\* C2: the plan is a partition of the instruments that need data: each of them
\* is in exactly one batch, once; the others are in none; and the plan is empty
\* exactly when no instrument needs data.
C2_Partition ==
    PlanReturned =>
        /\ \A t \in ListTickers :
              Cardinality(Places(t)) = (IF NeedsData(t) THEN 1 ELSE 0)
        /\ (download_lists = <<>>) <=> (\A t \in ListTickers : ~NeedsData(t))

\* C3: a run in which the fetch of a batch failed (import_bulk was handed None
\* and raised TypeError) still went through every later batch of the plan.
C3_LaterBatchesAttempted ==
    (pc = "idle" /\ outcome = "TypeError") => entry = Len(download_lists)

\* C4: when the calendar gives no session after the last known date of an
\* instrument of the list inside the window, or last_trading_day cannot get its
\* sessions, calculate_downloads fails and returns no plan.
C4_OracleFailureHaltsPlanning ==
    (/\ PlanKnown
     /\ \E t \in ListTickers :
           /\ LastKnownDate(t) # None
           /\ \/ next_trading_day(nyse, LastKnownDate(t)) = NaT
              \/ last_trading_day(nyse, clock) = IndexError)
    => outcome = "IndexError"

\* C5: last_trading_day returns the close of the most recent session whose
\* close is at or before now.
C5_LastCompleted ==
    last_trading_day(nyse, clock) = MarketClose(LastCompletedSession(nyse, clock))

\* C6: every instrument of a batch has the batch's date as its required start:
\* BEGINNING_DATE without a prior record, its last known date otherwise.
C6_StartDates ==
    PlanReturned =>
        \A k \in 1..Len(download_lists) :
            \A i \in 1..Len(download_lists[k].tickers) :
                download_lists[k].date = RequiredStart(download_lists[k].tickers[i])

\* A plan with a batch from BEGINNING_DATE and a batch from a last known date.
C6_Witness ==
    /\ PlanReturned
    /\ \E j, k \in 1..Len(download_lists) :
          /\ download_lists[j].date = BEGINNING_DATE
          /\ download_lists[k].date # BEGINNING_DATE

\* C7: two planned instruments are in the same batch exactly when they require
\* the same start date; no two batches share a date; there are as many batches
\* as distinct required start dates.
C7_Grouping ==
    PlanReturned =>
        /\ \A j, k \in 1..Len(download_lists) :
              j # k => download_lists[j].date # download_lists[k].date
        /\ \A t, u \in Planned :
              \A p \in Places(t), q \in Places(u) :
                  (RequiredStart(t) = RequiredStart(u)) <=> (p[1] = q[1])
        /\ Len(download_lists) = Cardinality({RequiredStart(t) : t \in Planned})

\* Two instruments with the same last known date are planned, in one batch.
C7_Witness ==
    /\ PlanReturned
    /\ \E k \in 1..Len(download_lists) :
          /\ download_lists[k].date # BEGINNING_DATE
          /\ \E i, j \in 1..Len(download_lists[k].tickers) :
                download_lists[k].tickers[i] # download_lists[k].tickers[j]

\* C8: the collection holds at most one document for each (ticker, date).
C8_UniqueKey == \A k \in Keys : col[k] <= 1

\* A batch that starts at a last known date was fetched and its import, which
\* holds the stored record of that date again, was rejected.
C8_Witness ==
    /\ pc = "idle"
    /\ outcome = "DocumentInsertError"
    /\ download_lists[entry].date # BEGINNING_DATE
    /\ \E i \in 1..Len(download_lists[entry].tickers) :
          col[<<download_lists[entry].tickers[i], download_lists[entry].date>>] = 1

\* C9 as stated: with no write to the store in between, a second call of
\* calculate_downloads over the same list, made at the next instant, returns
\* what the first returned.
C9_SecondCallSamePlan ==
    PlanKnown =>
        calculate_downloads(col, tickers, nyse, NextClock(clock))
            = [raised |-> (outcome = "IndexError"), lists |-> download_lists]

\* C9 amended: planning leaves the store as it is, and a call of
\* calculate_downloads that follows another over the same list, with no write
\* to the store and no move of the clock in between, returns the same plan.
C9_SameInstantSamePlan ==
    [][Main_Plan =>
        /\ col' = col
        /\ (plans >= 1 /\ tickers' = tickers) =>
              /\ download_lists' = download_lists
              /\ (outcome' = "IndexError") <=> (outcome = "IndexError")]_vars

\* calculate_downloads ran twice in a row and returned a plan with a batch.
C9_Witness == plans = 2 /\ download_lists # <<>>

\* C10: with runs repeated at a fixed now over the same list and a complete
\* provider, the runs converge. Every step is then determined by the state, so
\* a run that ends without having stored a document is repeated for ever: the
\* runs converge exactly when every such run finds nothing to download, with
\* every instrument's last known date at or after the last completed session.
C10_Converges ==
    (pc = "idle" /\ plans >= 1) =>
        /\ outcome = "Nothing to download"
        /\ \A t \in ListTickers :
              /\ LastKnownDate(t) # None
              /\ LastKnownDate(t) >= DateOf(MarketClose(LastCompletedSession(nyse, clock)))

====
